---- MODULE Spec2Model ----
(***************************************************************************)
(* Model of leetcode-solutions-downloader/leetcode-donwloader.py: one run  *)
(* of main() against a remote site that answers every request as it likes. *)
(* Text values (title slugs, language codes, timestamps, path components)  *)
(* are sequences of one-character strings so that lower(), replace(),      *)
(* re.sub() and int() are computed, not assumed.                           *)
(***************************************************************************)
EXTENDS Integers, Sequences, FiniteSets

\* pc          where main stands
\* error       "none", or why the run was aborted: "auth" (the RuntimeError of
\*             main) or "http" (the HTTPError of raise_for_status)
\* dirs        the directories on disk;  created  those this run made
\* files       the files this run wrote, path -> content
\* log         the requests and filesystem operations of the run, in order
\* login       the answer to the login check (empty before it)
\* has_next, offset, submissions   the locals of get_submissions
\* pages       the answers get_submissions received, in order
\* problems    the problem -> language -> submissions mapping of main, as
\*             sequences in insertion order
\* pi, li, si  the position of the three nested loops of main
VARIABLES pc, error, dirs, created, files, log, login, has_next, offset,
          submissions, pages, problems, pi, li, si

vars == <<pc, error, dirs, created, files, log, login, has_next, offset,
          submissions, pages, problems, pi, li, si>>

\* ------------------------------------------------------------------ bounds
\* Largest number of submissionList requests a run of the model issues.
MaxPages == 3
\* Largest number of submissions the server hands out over all pages of a run.
MaxSubs == 3

\* ------------------------------------------------------------------ text
UpperChars == <<"A","B","C","D","E","F","G","H","I","J","K","L","M",
                "N","O","P","Q","R","S","T","U","V","W","X","Y","Z">>
LowerChars == <<"a","b","c","d","e","f","g","h","i","j","k","l","m",
                "n","o","p","q","r","s","t","u","v","w","x","y","z">>
DigitChars == <<"0","1","2","3","4","5","6","7","8","9">>

Range(s) == {s[i] : i \in DOMAIN s}

\* the lower-case letter of every upper-case one
LowerOf == [c \in Range(UpperChars) |->
               LowerChars[CHOOSE i \in DOMAIN UpperChars : UpperChars[i] = c]]

\* str.lower() on one character
LowerChar(c) == IF c \in DOMAIN LowerOf THEN LowerOf[c] ELSE c

\* str.lower()
Lower(s) == [i \in DOMAIN s |-> LowerChar(s[i])]

\* the character class [a-z0-9] of slugify's pattern
SlugChars == Range(LowerChars) \cup Range(DigitChars)

IsSlugChar(c) == c \in SlugChars

\* re.sub(r'[^a-z0-9]+', '-', s): every maximal run of other characters
\* becomes one '-'
RECURSIVE CollapseRuns(_)
CollapseRuns(s) ==
    IF s = <<>> THEN <<>>
    ELSE IF IsSlugChar(Head(s)) THEN <<Head(s)>> \o CollapseRuns(Tail(s))
    ELSE IF Len(s) > 1 /\ ~IsSlugChar(s[2]) THEN CollapseRuns(Tail(s))
    ELSE <<"-">> \o CollapseRuns(Tail(s))

\* str.strip('-')
RECURSIVE StripDash(_)
StripDash(s) ==
    IF s = <<>> THEN <<>>
    ELSE IF Head(s) = "-" THEN StripDash(Tail(s))
    ELSE IF s[Len(s)] = "-" THEN StripDash(SubSeq(s, 1, Len(s) - 1))
    ELSE s

slugify(text) == StripDash(CollapseRuns(Lower(text)))

\* str.replace("++", "pp"): non-overlapping occurrences, left to right
RECURSIVE ReplacePlusPlus(_)
ReplacePlusPlus(s) ==
    IF Len(s) < 2 THEN s
    ELSE IF s[1] = "+" /\ s[2] = "+"
         THEN <<"p", "p">> \o ReplacePlusPlus(SubSeq(s, 3, Len(s)))
         ELSE <<Head(s)>> \o ReplacePlusPlus(Tail(s))

\* lang.lower().replace("++", "pp"), the name of the language directory
LangDirName(lang) == ReplacePlusPlus(Lower(lang))

\* int(x["timestamp"]) for a string of decimal digits
DigitValOf == [c \in Range(DigitChars) |->
                  (CHOOSE i \in DOMAIN DigitChars : DigitChars[i] = c) - 1]

DigitVal(c) == DigitValOf[c]

RECURSIVE IntOf(_)
IntOf(s) ==
    IF s = <<>> THEN 0
    ELSE 10 * IntOf(SubSeq(s, 1, Len(s) - 1)) + DigitVal(s[Len(s)])

\* str(idx) inside the f-string of the file name
RECURSIVE StrOf(_)
StrOf(n) ==
    IF n < 10 THEN <<DigitChars[n + 1]>>
    ELSE StrOf(n \div 10) \o <<DigitChars[(n % 10) + 1]>>

\* ext_map of main
ext_map == {
    << <<"j","a","v","a">>, <<".","j","a","v","a">> >>,
    << <<"p","y","t","h","o","n">>, <<".","p","y">> >>,
    << <<"p","y","t","h","o","n","3">>, <<".","p","y">> >>,
    << <<"c">>, <<".","c">> >>,
    << <<"c","+","+">>, <<".","c","p","p">> >>,
    << <<"r","u","s","t">>, <<".","r","s">> >>,
    << <<"g","o">>, <<".","g","o">> >>,
    << <<"j","a","v","a","s","c","r","i","p","t">>, <<".","j","s">> >>,
    << <<"t","y","p","e","s","c","r","i","p","t">>, <<".","t","s">> >>,
    << <<"k","o","t","l","i","n">>, <<".","k","t">> >>,
    << <<"s","c","a","l","a">>, <<".","s","c","a","l","a">> >> }

\* ext_map.get(sub["lang"], ".txt")
ExtOf(lang) ==
    IF \E e \in ext_map : e[1] = lang
    THEN (CHOOSE e \in ext_map : e[1] = lang)[2]
    ELSE <<".","t","x","t">>

\* f"solution_{idx}{ext}"
SolutionName(idx, ext) ==
    <<"s","o","l","u","t","i","o","n","_">> \o StrOf(idx) \o ext

ReadmeName == <<"R","E","A","D","M","E",".","m","d">>

\* pathlib's  dir / name  (a path is the sequence of its components; joining
\* the empty name gives the directory itself)
Join(dir, name) == IF name = <<>> THEN dir ELSE Append(dir, name)

\* Path(config["output_dir"])
OutputDir == << <<"o","u","t">> >>

\* limit of get_submissions
limit == 20


\* ------------------------------------------------------------------ the remote site
\* The submissions the site may hand out: {id, titleSlug, lang, statusDisplay,
\* timestamp} of the submissionList query.
Sub(id, titleSlug, lang, status, ts) ==
    [id |-> id, titleSlug |-> titleSlug, lang |-> lang,
     statusDisplay |-> status, timestamp |-> ts]

Catalog == {
    Sub(11, <<"a","-","b">>, <<"c","+","+">>, "Accepted", <<"9">>),
    Sub(12, <<"a","-","b">>, <<"c","+","+">>, "Accepted", <<"1","0">>),
    Sub(17, <<"a","-","b">>, <<"c","+","+">>, "Accepted", <<"1","0","0">>),
    Sub(13, <<"A"," ","b">>, <<"C","+","+">>, "Accepted", <<"1","0">>),
    Sub(14, <<"a","-","b">>, <<"C","p","p">>, "Accepted", <<"9">>),
    Sub(15, <<"c","!">>, <<"p","y","t","h","o","n","3">>, "Accepted", <<"9">>),
    Sub(16, <<"c","!">>, <<"j","a","v","a">>, "Wrong Answer", <<"1","0">>) }

\* every sequence of at most n different submissions of the set S
Batches(S, n) ==
    {s \in UNION {[1..k -> S] : k \in 0..n} :
        \A i, j \in DOMAIN s : s[i] = s[j] => i = j}

\* answers of GET /api/problems/all/
LoginResponses ==
    [status : {200, 403}, has_user_name : BOOLEAN, user_name : {"null", "alice"}]

\* HTTP statuses of the two GraphQL queries
Statuses == {200, 500}

\* the detail page of a submission: no submissionCode assignment, an
\* assignment of the empty string, or an assignment of the submission's code
CodeOutcomes == {"absent", "empty", "code"}

\* the submissions handed out so far (the site lists a submission once)
Served(ps) == UNION {Range(ps[i].submissions) : i \in DOMAIN ps}

\* ------------------------------------------------------------------ helpers
\* One entry of the run's trace of requests and filesystem operations:
\* op is "mkdir", "login", "list", "describe", "code" or "write"; path the file
\* or directory; num the offset of a list request or the submission id; text
\* the titleSlug of a describe request or the content written (a README is
\* written as the titleSlug it describes); res what came back ("ok" or "fail" for
\* the GraphQL queries, the outcome of a code fetch); p, l, k the problem,
\* language and enumerate index the loops of main stand at (0 outside them).
EventAt(op, path, num, text, res, p, l, k) ==
    [op |-> op, path |-> path, num |-> num, text |-> text, res |-> res,
     p |-> p, l |-> l, k |-> k]

Event(op, path, num, text, res) == EventAt(op, path, num, text, res, 0, 0, 0)

\* raise_for_status left out: no status raises
raise_for_status_Never(status) == FALSE

\* resp.raise_for_status(): TRUE when it raises (a 4xx or 5xx status)
raise_for_status(status) == 400 <= status /\ status < 600

ResOf(status) == IF status = 200 THEN "ok" ELSE "fail"

\* open(path, "w").write(content)
WriteFile(fs, path, content) ==
    [q \in DOMAIN fs \cup {path} |-> IF q = path THEN content ELSE fs[q]]

\* get_submission_code on a detail page: None when the submissionCode
\* assignment is absent, else the text between the markers (the code of
\* submission id is written <<id>>)
get_submission_code(page, id) ==
    IF page = "absent" THEN [none |-> TRUE, code |-> <<>>]
    ELSE IF page = "empty" THEN [none |-> FALSE, code |-> <<>>]
    ELSE [none |-> FALSE, code |-> <<id>>]

\* not code  (None and the empty string are both falsy)
NotCode(code) == code.none \/ code.code = <<>>

\* check_logged_in without the  is not None  test
check_logged_in_KeyOnly(resp) ==
    IF resp.status # 200 THEN FALSE
    ELSE resp.has_user_name

\* check_logged_in
check_logged_in(resp) ==
    IF resp.status # 200 THEN FALSE
    ELSE resp.has_user_name /\ resp.user_name # "null"

\* the page taken whole, without the client-side filter
accepted_subs_Unfiltered(sublist) == sublist

\* [s for s in sublist if s.get("statusDisplay") == "Accepted"]
accepted_subs(sublist) ==
    SelectSeq(sublist, LAMBDA s : s.statusDisplay = "Accepted")

\* the bucket assigned instead of appended to
AddToLangs_Assign(langs, sub) ==
    IF \E j \in DOMAIN langs : langs[j].lang = sub.lang
    THEN LET j == CHOOSE j \in DOMAIN langs : langs[j].lang = sub.lang
         IN  [langs EXCEPT ![j].subs = <<sub>>]
    ELSE Append(langs, [lang |-> sub.lang, subs |-> <<sub>>])

\* problems[slugify(sub["titleSlug"])][sub["lang"]].append(sub) on the
\* insertion-ordered two-level mapping
AddToLangs(langs, sub) ==
    IF \E j \in DOMAIN langs : langs[j].lang = sub.lang
    THEN LET j == CHOOSE j \in DOMAIN langs : langs[j].lang = sub.lang
         IN  [langs EXCEPT ![j].subs = Append(@, sub)]
    ELSE Append(langs, [lang |-> sub.lang, subs |-> <<sub>>])

\* a new problem put in front of the mapping instead of at its end
AddToProblems_Prepend(ps, sub) ==
    LET slug == slugify(sub.titleSlug) IN
    IF \E i \in DOMAIN ps : ps[i].slug = slug
    THEN LET i == CHOOSE i \in DOMAIN ps : ps[i].slug = slug
         IN  [ps EXCEPT ![i].langs = AddToLangs(@, sub)]
    ELSE <<[slug |-> slug,
            langs |-> <<[lang |-> sub.lang, subs |-> <<sub>>]>>]>> \o ps

AddToProblems(ps, sub) ==
    LET slug == slugify(sub.titleSlug) IN
    IF \E i \in DOMAIN ps : ps[i].slug = slug
    THEN LET i == CHOOSE i \in DOMAIN ps : ps[i].slug = slug
         IN  [ps EXCEPT ![i].langs = AddToLangs(@, sub)]
    ELSE Append(ps, [slug |-> slug,
                     langs |-> <<[lang |-> sub.lang, subs |-> <<sub>>]>>])

RECURSIVE Organize(_)
Organize(subs) ==
    IF subs = <<>> THEN <<>>
    ELSE AddToProblems(Organize(SubSeq(subs, 1, Len(subs) - 1)), subs[Len(subs)])

\* key=lambda x: int(x["timestamp"])
SortKey(x) == IntOf(x.timestamp)

\* the sort without reverse=True: smallest key first
InsertAsc(sorted, x) ==
    LET n == Cardinality({i \in DOMAIN sorted : SortKey(sorted[i]) <= SortKey(x)})
    IN  SubSeq(sorted, 1, n) \o <<x>> \o SubSeq(sorted, n + 1, Len(sorted))

\* submissions.sort(key=..., reverse=True): stable, largest key first
InsertDesc(sorted, x) ==
    LET n == Cardinality({i \in DOMAIN sorted : SortKey(sorted[i]) >= SortKey(x)})
    IN  SubSeq(sorted, 1, n) \o <<x>> \o SubSeq(sorted, n + 1, Len(sorted))

RECURSIVE SortDesc(_)
SortDesc(s) ==
    IF s = <<>> THEN <<>>
    ELSE InsertDesc(SortDesc(SubSeq(s, 1, Len(s) - 1)), s[Len(s)])

ProblemDir(p) == Join(OutputDir, problems[p].slug)
LangDir(p, l) == Join(ProblemDir(p), LangDirName(problems[p].langs[l].lang))

\* ------------------------------------------------------------------ the run
Init ==
    /\ pc = "start"
    /\ error = "none"
    /\ dirs \in {{}, {OutputDir}}
    /\ created = {}
    /\ files = <<>>
    /\ log = <<>>
    /\ login = <<>>
    /\ has_next = TRUE
    /\ offset = 0
    /\ submissions = <<>>
    /\ pages = <<>>
    /\ problems = <<>>
    /\ pi = 0
    /\ li = 0
    /\ si = 0

\* main, up to the session set-up: output_dir.mkdir(exist_ok=True)
Start ==
    /\ pc = "start"
    /\ dirs' = dirs \cup {OutputDir}
    /\ created' = created \cup ({OutputDir} \ dirs)
    /\ log' = Append(log, Event("mkdir", OutputDir, 0, <<>>, ""))
    /\ pc' = "login"
    /\ UNCHANGED <<error, files, login, has_next, offset, submissions, pages,
                   problems, pi, li, si>>

\* main: if not check_logged_in(session): raise RuntimeError(...); otherwise
\* get_submissions starts with its locals
CheckLogin ==
    /\ pc = "login"
    /\ \E resp \in LoginResponses :
         /\ login' = <<resp>>
         /\ log' = Append(log, Event("login", <<>>, 0, <<>>, ""))
         /\ IF check_logged_in(resp)
            THEN /\ pc' = "listing"
                 /\ error' = error
            ELSE /\ pc' = "aborted"
                 /\ error' = "auth"
    /\ submissions' = <<>>
    /\ has_next' = TRUE
    /\ offset' = 0
    /\ UNCHANGED <<dirs, created, files, pages, problems, pi, li, si>>

\* one iteration of  while has_next  in get_submissions
ListPage ==
    /\ pc = "listing"
    /\ has_next
    /\ Len(pages) < MaxPages
    /\ \E status \in Statuses :
         /\ log' = Append(log, Event("list", <<>>, offset, <<>>, ResOf(status)))
         /\ IF raise_for_status(status)
            THEN /\ pages' = Append(pages, [status |-> status,
                                            submissions |-> <<>>, hasNext |-> FALSE])
                 /\ pc' = "aborted"
                 /\ error' = "http"
                 /\ UNCHANGED <<has_next, offset, submissions>>
            ELSE \E sublist \in Batches(Catalog \ Served(pages),
                                       MaxSubs - Cardinality(Served(pages))),
                    hn \in BOOLEAN :
                 /\ pages' = Append(pages, [status |-> status,
                                            submissions |-> sublist, hasNext |-> hn])
                 /\ has_next' = hn
                 /\ submissions' = submissions \o accepted_subs(sublist)
                 /\ offset' = offset + limit
                 /\ pc' = IF hn THEN "listing" ELSE "listed"
                 /\ error' = error
    /\ UNCHANGED <<dirs, created, files, login, problems, pi, li, si>>

\* main: get_submissions has returned; the grouping loop over the returned
\* list.  The responses get_submissions received go out of scope with it.
Group ==
    /\ pc = "listed"
    /\ problems' = Organize(submissions)
    /\ pi' = 1
    /\ pc' = IF Organize(submissions) = <<>> THEN "done" ELSE "problem"
    /\ pages' = <<>>
    /\ UNCHANGED <<error, dirs, created, files, log, login, has_next, offset,
                   submissions, li, si>>

\* main: head of  for problem_slug, langs in problems.items()  with
\* download_problem_description
ProcessProblem ==
    /\ pc = "problem"
    /\ LET title_slug == problems[pi].langs[1].subs[1].titleSlug
           problem_dir == ProblemDir(pi)
           mk == EventAt("mkdir", problem_dir, 0, <<>>, "", pi, 0, 0)
           readme == Join(problem_dir, ReadmeName)
           wr == EventAt("write", readme, 0, title_slug, "", pi, 0, 0)
       IN  /\ dirs' = dirs \cup {problem_dir}
           /\ created' = created \cup ({problem_dir} \ dirs)
           /\ \E status \in Statuses :
                LET rq == EventAt("describe", <<>>, 0, title_slug, ResOf(status),
                                  pi, 0, 0)
                IN
                IF raise_for_status(status)
                THEN /\ log' = log \o <<mk, rq>>
                     /\ pc' = "aborted"
                     /\ error' = "http"
                     /\ UNCHANGED <<files, li>>
                ELSE /\ log' = log \o <<mk, rq, wr>>
                     /\ files' = WriteFile(files, readme,
                                    [kind |-> "readme", id |-> 0, text |-> title_slug])
                     /\ li' = 1
                     /\ pc' = "lang"
                     /\ error' = error
    /\ UNCHANGED <<login, has_next, offset, submissions, pages, problems, pi, si>>

\* main: head of  for lang, submissions in langs.items()
ProcessLang ==
    /\ pc = "lang"
    /\ LET lang_dir == LangDir(pi, li) IN
           /\ dirs' = dirs \cup {lang_dir}
           /\ created' = created \cup ({lang_dir} \ dirs)
           /\ log' = Append(log, EventAt("mkdir", lang_dir, 0, <<>>, "", pi, li, 0))
    /\ problems' = [problems EXCEPT ![pi].langs[li].subs = SortDesc(@)]
    /\ si' = 1
    /\ pc' = "sub"
    /\ UNCHANGED <<error, files, login, has_next, offset, submissions, pages, pi, li>>

\* main: one iteration of  for idx, sub in enumerate(submissions, start=1)
ProcessSubmission ==
    /\ pc = "sub"
    /\ LET bucket == problems[pi].langs[li].subs
           sub == bucket[si]
           path == Join(LangDir(pi, li), SolutionName(si, ExtOf(sub.lang)))
       IN  /\ \E outcome \in CodeOutcomes :
                LET rq == EventAt("code", <<>>, sub.id, <<>>, outcome, pi, li, si)
                    code == get_submission_code(outcome, sub.id)
                    wr == EventAt("write", path, sub.id, code.code, "", pi, li, si)
                IN
                IF NotCode(code)
                THEN /\ log' = Append(log, rq)
                     /\ files' = files
                ELSE /\ log' = log \o <<rq, wr>>
                     /\ files' = WriteFile(files, path,
                                    [kind |-> "code", id |-> 0, text |-> code.code])
           /\ IF si < Len(bucket)
              THEN /\ si' = si + 1
                   /\ UNCHANGED <<li, pi, pc>>
              ELSE IF li < Len(problems[pi].langs)
              THEN /\ li' = li + 1
                   /\ pc' = "lang"
                   /\ UNCHANGED <<si, pi>>
              ELSE IF pi < Len(problems)
              THEN /\ pi' = pi + 1
                   /\ pc' = "problem"
                   /\ UNCHANGED <<si, li>>
              ELSE /\ pc' = "done"
                   /\ UNCHANGED <<si, li, pi>>
    /\ UNCHANGED <<error, dirs, created, login, has_next, offset, submissions,
                   pages, problems>>

Next ==
    \/ Start
    \/ CheckLogin
    \/ ListPage
    \/ Group
    \/ ProcessProblem
    \/ ProcessLang
    \/ ProcessSubmission

Spec == Init /\ [][Next]_vars


\* ------------------------------------------------------------------ properties
ListRequests == SelectSeq(log, LAMBDA e : e.op = "list")

IsAccepted(s) == s.statusDisplay = "Accepted"

RECURSIVE OnlyAccepted(_)
OnlyAccepted(s) ==
    IF s = <<>> THEN <<>>
    ELSE IF IsAccepted(Head(s)) THEN <<Head(s)>> \o OnlyAccepted(Tail(s))
    ELSE OnlyAccepted(Tail(s))

RECURSIVE AcceptedConcat(_)
AcceptedConcat(ps) ==
    IF ps = <<>> THEN <<>>
    ELSE OnlyAccepted(Head(ps).submissions) \o AcceptedConcat(Tail(ps))

Count(x, s) == Cardinality({i \in DOMAIN s : s[i] = x})

Grouped == pc \in {"problem", "lang", "sub", "done"} \/ (pc = "aborted" /\ pi > 0)

LoginFails(resp) ==
    resp.status # 200 \/ ~resp.has_user_name \/ resp.user_name = "null"

NullUserName(resp) ==
    resp.status = 200 /\ resp.has_user_name /\ resp.user_name = "null"

\* C1: when the login check fails (status other than 200, or no user_name field,
\* or a null one) the run has aborted with an authentication error, and its trace
\* holds no submission-list request, no describe or code request, no write, and
\* no directory other than the output directory.
C1_LoginGate ==
    (login # <<>> /\ LoginFails(login[1])) =>
        /\ pc = "aborted"
        /\ error = "auth"
        /\ \A i \in DOMAIN log :
              /\ log[i].op \in {"mkdir", "login"}
              /\ log[i].op = "mkdir" => log[i].path = OutputDir
        /\ files = <<>>
        /\ dirs \subseteq {OutputDir}

C1_Witness ==
    /\ login # <<>>
    /\ NullUserName(login[1])
    /\ pc = "aborted"
    /\ error = "auth"

\* C2: a run that starts with no output directory on disk and whose login check
\* returns user_name null aborts with an authentication error having created no
\* directory at all, the output directory included.
C2_NoDirectoryCreated ==
    ( /\ login # <<>>
      /\ NullUserName(login[1])
      /\ pc = "aborted"
      /\ OutputDir \notin (dirs \ created) )
    => (error = "auth" /\ created = {})

\* C3: the list requests carry the offsets 0, 20, 40, ... in that order, each
\* once, one directly after the other from the login check on; every page
\* before the last one answered hasNext true; when get_submissions returns, the
\* last page answered hasNext false and the returned list is the concatenation,
\* in page order, of the Accepted submissions of the pages.
C3_PaginationComplete ==
    LET reqs == ListRequests IN
    /\ \A i \in DOMAIN reqs : reqs[i].num = 20 * (i - 1)
    /\ \A i \in DOMAIN log :
          /\ log[i].op = "list" => (i > 1 /\ log[i - 1].op \in {"login", "list"})
          /\ log[i].op = "login" => i = 2
    /\ pc \in {"listing", "listed"} =>
          /\ Len(reqs) = Len(pages)
          /\ \A i \in DOMAIN pages : pages[i].status = 200
          /\ \A i \in 1..(Len(pages) - 1) : pages[i].hasNext
          /\ submissions = AcceptedConcat(pages)
    /\ pc = "listing" => has_next
    /\ pc = "listed" =>
          /\ Len(pages) >= 1
          /\ ~pages[Len(pages)].hasNext

C3_Witness ==
    /\ pc = "listed"
    /\ Len(pages) >= 2
    /\ \E i \in DOMAIN pages :
          /\ \E a \in DOMAIN pages[i].submissions : IsAccepted(pages[i].submissions[a])
          /\ \E b \in DOMAIN pages[i].submissions : ~IsAccepted(pages[i].submissions[b])
    /\ \E i, j \in DOMAIN pages :
          /\ i # j
          /\ OnlyAccepted(pages[i].submissions) # <<>>
          /\ OnlyAccepted(pages[j].submissions) # <<>>

\* C4: a page with an empty batch and hasNext true makes get_submissions abort:
\* it is the last page requested and the run has aborted.
C4_EmptyPageAborts ==
    \A i \in DOMAIN pages :
        (pages[i].status = 200 /\ pages[i].submissions = <<>> /\ pages[i].hasNext)
        => (i = Len(pages) /\ pc = "aborted")

\* C5: every solution file written for a language bucket is named solution_k in
\* that bucket's directory, where k is the recency rank of the submission whose
\* code it holds: fewer than k submissions of the bucket have a larger integer
\* timestamp and at least k have one at least as large; two writes of one
\* bucket never use the same k.
Newer(B, s) ==
    Cardinality({j \in DOMAIN B : IntOf(B[j].timestamp) > IntOf(s.timestamp)})

NotOlder(B, s) ==
    Cardinality({j \in DOMAIN B : IntOf(B[j].timestamp) >= IntOf(s.timestamp)})

IsSolutionWrite(e) == e.op = "write" /\ e.k > 0

CppDir == OutputDir \o << <<"a","-","b">>, <<"c","p","p">> >>

C6_WrittenIffFound ==
    \A i \in DOMAIN log : log[i].op = "code" =>
        ( (\E j \in DOMAIN log :
              /\ IsSolutionWrite(log[j])
              /\ log[j].p = log[i].p /\ log[j].l = log[i].l /\ log[j].k = log[i].k)
          <=> log[i].res # "absent" )

\* C7: a list or describe request answered with a non-success status is the
\* last entry of the run's trace, and the run has aborted; after a failed list
\* request nothing but the output directory was created and nothing written;
\* after a failed describe request of a problem every write of the run belongs
\* to an earlier problem.
C7_FailStop ==
    \A i \in DOMAIN log :
        (log[i].op \in {"list", "describe"} /\ log[i].res = "fail") =>
            /\ i = Len(log)
            /\ pc = "aborted"
            /\ error = "http"
            /\ log[i].op = "list" =>
                  /\ files = <<>>
                  /\ dirs \subseteq {OutputDir}
                  /\ \A j \in DOMAIN log : log[j].op \in {"mkdir", "login", "list"}
            /\ log[i].op = "describe" =>
                  \A j \in DOMAIN log : log[j].op \in {"write", "code"} =>
                      /\ log[j].p < log[i].p
                      /\ log[j].op = "write" =>
                            log[j].path[2] # slugify(log[i].text)

C7_Witness ==
    /\ error = "http"
    /\ pc = "aborted"
    /\ log[Len(log)].op = "describe"
    /\ log[Len(log)].p = 2
    /\ \E j \in DOMAIN log : IsSolutionWrite(log[j])

\* C8: once the mapping is built, problem slugs are pairwise different and so
\* are the languages of a problem; every submission of a bucket has the
\* bucket's language and a titleSlug that slugifies to the problem's slug, and
\* occurs in the bucket as often as in the returned list; every submission of
\* the returned list is in some bucket.
C8_Grouping ==
    Grouped =>
        /\ \A a, b \in DOMAIN problems :
              problems[a].slug = problems[b].slug => a = b
        /\ \A p \in DOMAIN problems :
              /\ \A a, b \in DOMAIN problems[p].langs :
                    problems[p].langs[a].lang = problems[p].langs[b].lang => a = b
              /\ \A l \in DOMAIN problems[p].langs :
                    LET B == problems[p].langs[l].subs IN
                    /\ B # <<>>
                    /\ \A j \in DOMAIN B :
                          /\ slugify(B[j].titleSlug) = problems[p].slug
                          /\ B[j].lang = problems[p].langs[l].lang
                          /\ Count(B[j], B) = Count(B[j], submissions)
        /\ \A i \in DOMAIN submissions :
              \E p \in DOMAIN problems : \E l \in DOMAIN problems[p].langs :
                  Count(submissions[i], problems[p].langs[l].subs) > 0

C8_Witness ==
    /\ pc = "done"
    /\ Len(problems) = 2
    /\ Len(submissions) = 3
    /\ \E i, j \in DOMAIN submissions :
          /\ submissions[i].titleSlug # submissions[j].titleSlug
          /\ slugify(submissions[i].titleSlug) = slugify(submissions[j].titleSlug)

\* C9: from one entry of the trace to the next the problem never goes back, nor
\* within a problem the language; problems stand in the order their slugs first occur in
\* the returned list; every entry made for a problem concerns that problem;
\* a problem has at most one describe request and one README write, both before
\* any of its language directories, code requests and solution writes; a
\* problem that was left has one README write and one code request per
\* submission.
EntriesOf(p, ops) == {i \in DOMAIN log : log[i].p = p /\ log[i].op \in ops}

IsReadmeWrite(e) == e.op = "write" /\ e.k = 0

RECURSIVE SubsIn(_)
SubsIn(langs) ==
    IF langs = <<>> THEN 0 ELSE Len(Head(langs).subs) + SubsIn(Tail(langs))

C9_Sequential ==
    /\ \A i \in 1..(Len(log) - 1) :
          /\ log[i].p <= log[i + 1].p
          /\ log[i].p = log[i + 1].p => log[i].l <= log[i + 1].l
    /\ Grouped =>
          /\ \A a, b \in DOMAIN problems : a < b =>
                \E i \in DOMAIN submissions :
                    /\ slugify(submissions[i].titleSlug) = problems[a].slug
                    /\ \A j \in 1..i :
                          slugify(submissions[j].titleSlug) # problems[b].slug
          /\ \A i \in DOMAIN log : log[i].p > 0 =>
                LET e == log[i] IN
                /\ e.p \in DOMAIN problems
                /\ e.path # <<>> =>
                      /\ Len(e.path) >= 2
                      /\ SubSeq(e.path, 1, 2) = OutputDir \o <<problems[e.p].slug>>
                /\ e.op = "describe" => slugify(e.text) = problems[e.p].slug
                /\ e.op = "code" =>
                      \E l \in DOMAIN problems[e.p].langs :
                          \E j \in DOMAIN problems[e.p].langs[l].subs :
                              problems[e.p].langs[l].subs[j].id = e.num
          /\ \A p \in DOMAIN problems :
                LET describes == EntriesOf(p, {"describe"})
                    readmes == {i \in EntriesOf(p, {"write"}) : IsReadmeWrite(log[i])}
                    later == {i \in DOMAIN log : log[i].p = p /\ log[i].l > 0}
                IN  /\ Cardinality(describes) <= 1
                    /\ Cardinality(readmes) <= 1
                    /\ \A i \in later :
                          /\ \E d \in describes : d < i
                          /\ \E w \in readmes : w < i
                    /\ (p < pi \/ pc = "done") =>
                          /\ Cardinality(readmes) = 1
                          /\ Cardinality(EntriesOf(p, {"code"}))
                                = SubsIn(problems[p].langs)

C9_Witness ==
    /\ pc = "done"
    /\ Len(problems) = 2
    /\ Len(problems[1].langs) = 2
    /\ Cardinality({i \in DOMAIN log : IsSolutionWrite(log[i])}) = 3
    /\ Cardinality({i \in DOMAIN log : IsReadmeWrite(log[i])}) = 2

\* C10: no two different submissions are written to the same path in one run.
C10_NoOverwrite ==
    \A i, j \in DOMAIN log :
        (log[i].op = "write" /\ log[j].op = "write" /\ log[i].path = log[j].path)
        => log[i].num = log[j].num

====
